---- MODULE Spec2Model ----
(***************************************************************************)
(* Model of the bounded-concurrency prompt pipeline of datagen             *)
(* (src/src/index.ts, main, lines 478-597) on the JavaScript event loop.   *)
(*                                                                         *)
(* One action is one run-to-completion block of the code: the code between *)
(* two suspension points (await) of main or of a task, or one promise      *)
(* reaction (the write chain's then-callback, the finally-callback that    *)
(* removes a task from inFlight).  Promise reactions are microtasks: they  *)
(* all run before the next I/O callback (a fetch response, a write         *)
(* callback), in any order that respects the registration order on one     *)
(* promise.  The next line of the prompts file may be buffered (delivered  *)
(* in a microtask) or not, so main's read step may run at any time.        *)
(*                                                                         *)
(* Optional values (null, undefined, a missing field) are sets with at     *)
(* most one element.  Amounts of money are integers (a unit of currency    *)
(* small enough for every rate to be whole).                               *)
(*                                                                         *)
(* Spec is the pipeline from the first read on.  SpecLive is the pipeline  *)
(* of a run whose reads, calls and writes all answer, with weak fairness.  *)
(* SpecMain is main from parseArgs on (index.ts:375): the checks of the    *)
(* arguments, of API_KEY and of the prompts file, the pricing lookup and   *)
(* the opening of the streams, then the pipeline.  SpecFn is one call of   *)
(* an exported pure function (parseArgs, formatAssistantContent,           *)
(* buildOutputMessages) on arguments drawn from bounded sets; a string is  *)
(* the sequence of its characters.                                         *)
(***************************************************************************)
EXTENDS Integers, Sequences, FiniteSets, TLC

\* ---------------------------------------------------------------- bounds
MaxLines == 3
MaxPrompts == 3
MaxConcurrent == 2
\* The longest run for which a pricing lookup returned a result with every
\* rate known; a run with a rate that is not known is one prompt shorter.
MaxPricedPrompts == 2

\* ------------------------------------------------------- generic helpers
RECURSIVE SumOver(_, _)
SumOver(S, f) ==
  IF S = {} THEN 0
  ELSE LET x == CHOOSE y \in S : TRUE IN f[x] + SumOver(S \ {x}, f)

OrZero(opt) == IF opt = {} THEN 0 ELSE CHOOSE n \in opt : TRUE

Range(s) == {s[i] : i \in 1..Len(s)}

IsPrefix(s, t) == Len(s) <= Len(t) /\ \A i \in 1..Len(s) : s[i] = t[i]

\* ---------------------------------------------------------------- strings
\* A string is the sequence of its characters.
MaxStr == 2

\* The strings of at most n characters of the alphabet.
StringsOver(alphabet, n) == UNION {[1..k -> alphabet] : k \in 0..n}

Texts == StringsOver({" ", "a"}, MaxStr)

IsWhiteSpace(c) == c \in {" ", "\t", "\n", "\r"}

RECURSIVE TrimStart(_)
TrimStart(s) ==
  IF s = <<>> THEN s
  ELSE IF IsWhiteSpace(Head(s)) THEN TrimStart(Tail(s)) ELSE s

RECURSIVE TrimEnd(_)
TrimEnd(s) ==
  IF s = <<>> THEN s
  ELSE IF IsWhiteSpace(s[Len(s)]) THEN TrimEnd(SubSeq(s, 1, Len(s) - 1))
       ELSE s

\* String.prototype.trim
Trim(s) == TrimEnd(TrimStart(s))

\* ------------------------------------------------------------ the inputs
\* A prompts file is the sequence of its raw lines.  The lines that hold a
\* prompt are those whose trim() is not empty.
NonBlank(file) == {i \in 1..Len(file) : Len(Trim(file[i])) > 0}

\* The raw lines a file may have at line i: an odd line is empty or a
\* prompt followed by a blank, an even line is one blank or a prompt that
\* follows a blank.
LineTexts(i) ==
  IF i % 2 = 1 THEN {<<>>, <<"a", " ">>} ELSE {<<" ">>, <<" ", "a">>}

PromptFiles ==
  {f \in UNION {[1..n -> UNION {LineTexts(i) : i \in 1..2}] :
                  n \in 0..MaxLines} :
     /\ \A i \in 1..Len(f) : f[i] \in LineTexts(i)
     /\ Cardinality(NonBlank(f)) <= MaxPrompts}

\* The rates OpenRouter lists for the model, in currency units.
ListedRates == [request |-> 1, prompt |-> 2, completion |-> 5]

\* getOpenRouterModelPricing: a rate that is not a finite number string is
\* not known and parses to 0 (safeParseNumber).
PricingOf(known) ==
  [requestUSD |-> IF known.request THEN ListedRates.request ELSE 0,
   promptPerTokenUSD |-> IF known.prompt THEN ListedRates.prompt ELSE 0,
   completionPerTokenUSD |->
       IF known.completion THEN ListedRates.completion ELSE 0,
   known |-> known]

KnownFlags ==
  {k \in [prompt : BOOLEAN, completion : BOOLEAN, request : BOOLEAN] :
     Cardinality({f \in {"prompt", "completion", "request"} : ~k[f]}) <= 1}

\* pricing is null ({}) when the API base is not OpenRouter, when the lookup
\* threw or when the model has no pricing.
Pricings == {{}} \cup {{PricingOf(k)} : k \in KnownFlags}

\* data.usage of a response: undefined ({}) or an object whose fields may
\* be missing.
Usages ==
  {{},
   {[prompt_tokens |-> {}, completion_tokens |-> {}]},
   {[prompt_tokens |-> {3}, completion_tokens |-> {4}]}}

\* message.content of a response: undefined or null, a string, or a value
\* of another type.
Contents ==
  {[type |-> "undefined", text |-> <<>>], [type |-> "object", text |-> <<>>],
   [type |-> "string", text |-> <<>>], [type |-> "string", text |-> <<"a">>]}

\* What fetch gives callOpenRouter: a rejection ("rejected"), or a response
\* whose status is a success ("ok") or not ("error").
Responses ==
  {r \in [status : {"rejected", "error", "ok"}, content : Contents,
          usage : Usages] :
     \/ r.status = "ok" /\ r.content.type = "string" /\ r.content.text # <<>>
     \/ r.usage = {} /\ (r.status = "ok" \/ r.content.type = "undefined")}

VARIABLES
  lines,          \* the prompts file
  maxConcurrent,  \* Math.max(1, concurrent)
  pricing,        \* the pricing lookup's result
  bar,            \* TRUE when a ProgressBar was created
  pc,             \* where main is suspended
  lineNum,
  promptIndex,
  tasks,          \* the tasks scheduled so far, by promptIndex + 1
  inFlight,
  raceOn,         \* the promises main's pending Promise.race was given
  writeChain,     \* the promises writeQueue has referred to, in order
  rows,           \* the lines of the output file (0: a line of an earlier
                  \* run, t: the row of task t)
  outEnded,       \* out.end() was called
  completed,
  okCount,
  errCount,
  spentUsd,
  snapshot,       \* the last arguments of bar.render / bar.finish
  seen,           \* the values of completed the bar was given, in order
  warned,         \* the WARN and ERR lines written to stderr
  env,            \* what main finds: arguments, API_KEY, the prompts file
  exitCode,       \* the argument of process.exit, if it was called
  outOpened,      \* createWriteStream(absOutPath, { flags: "w" }) was called
  printed,        \* the errors main wrote with console.error
  fnIn,           \* the arguments of a call of an exported function
  fnOut           \* what that call returned or threw

vars == <<lines, maxConcurrent, pricing, bar, pc, lineNum, promptIndex,
          tasks, inFlight, raceOn, writeChain, rows, outEnded, completed,
          okCount, errCount, spentUsd, snapshot, seen, warned, env,
          exitCode, outOpened, printed, fnIn, fnOut>>

\* What no step of the pipeline changes: the constants of main and the
\* traces of the steps before the pipeline.
inputs == <<lines, maxConcurrent, pricing, bar, env, exitCode, outOpened,
            printed, fnIn, fnOut>>

\* No exported function is being called.
NoCall == [fn |-> "none"]

\* main passed every check of index.ts:375-413; the API base is
\* OpenRouter and the pricing lookup returned what it found.
RunEnv ==
  [argsOk |-> TRUE, apiKey |-> TRUE, file |-> "ok", openRouter |-> TRUE,
   lookup |-> "found"]

\* ---------------------------------------------------------------- helpers
\* Variant: the test of the pricing warning (index.ts:471), which leaves
\* the per-request rate out.
canTrackSpendTokenRatesOnly ==
  /\ pricing # {}
  /\ \A p \in pricing : p.known.prompt /\ p.known.completion

canTrackSpend ==
  /\ pricing # {}
  /\ \A p \in pricing : p.known.prompt /\ p.known.completion /\ p.known.request

calculateOpenRouterSpendUSD(p, usage) ==
  LET promptTokens == IF usage = {} THEN 0
                      ELSE OrZero((CHOOSE u \in usage : TRUE).prompt_tokens)
      completionTokens ==
                      IF usage = {} THEN 0
                      ELSE OrZero((CHOOSE u \in usage : TRUE).completion_tokens)
  IN p.requestUSD + promptTokens * p.promptPerTokenUSD
       + completionTokens * p.completionPerTokenUSD

\* A line of stderr: a WARN line of main, or the ERR line of the task that
\* was scheduled for raw line n.
Warn(text) == [text |-> text, line |-> {}]
ErrLine(n) == [text |-> "ERR line", line |-> {n}]

\* The WARN lines of the pricing lookup (index.ts:435-476).
PricingWarnings ==
  IF ~env.openRouter THEN {}
  ELSE IF env.lookup = "threw"
         THEN {Warn("Failed to fetch OpenRouter models/pricing")}
  ELSE IF pricing = {} THEN {Warn("Could not find pricing for model")}
  ELSE IF \E p \in pricing : ~p.known.prompt \/ ~p.known.completion
         THEN {Warn("OpenRouter did not provide token pricing")}
  ELSE {}

\* The object literal handed to bar.render and bar.finish.
Stats(c, ok, err, spent) ==
  [completed |-> c, ok |-> ok, err |-> err,
   spentUsd |-> IF canTrackSpend THEN {spent} ELSE {}]

\* renderProgress() after the counters became c, ok, err.
renderProgress(c, ok, err, spent) ==
  /\ snapshot' = IF bar THEN {Stats(c, ok, err, spent)} ELSE snapshot
  /\ seen' = IF bar THEN Append(seen, c) ELSE seen

TaskIds == 1..Len(tasks)

\* The entry of the write chain that task t awaits.
EntryOf(t) == CHOOSE i \in 1..Len(writeChain) : writeChain[i].task = t

\* Variant: out.write is called without waiting for the chain.
PrevFulfilledNoChain(i) == TRUE

\* Variant: the chain goes on after a rejected write
\* (writeQueue.then(fn, fn)).
PrevFulfilledOrRejected(i) ==
  IF i = 1 THEN TRUE ELSE writeChain[i - 1].st \in {"fulfilled", "rejected"}

\* writeQueue.then(fn): fn runs once the previous promise of the chain is
\* fulfilled (the chain starts with Promise.resolve()).
PrevFulfilled(i) ==
  IF i = 1 THEN TRUE ELSE writeChain[i - 1].st = "fulfilled"
PrevRejected(i) ==
  IF i = 1 THEN FALSE ELSE writeChain[i - 1].st = "rejected"

\* Variant: waitForSlot awaits Promise.race(inFlight) before its first test.
SlotTakenAlways(set) == TRUE

\* Variant: the limit is clamped at 2 (Math.max(2, concurrent)).
SlotTakenClampedAtTwo(set) ==
  Cardinality(set) >= (IF maxConcurrent < 2 THEN 2 ELSE maxConcurrent)

\* Variant: the loop tests inFlight.size > maxConcurrent.
SlotTakenOffByOne(set) == Cardinality(set) > maxConcurrent

\* while (inFlight.size >= maxConcurrent) of waitForSlot.
SlotTaken(set) == Cardinality(set) >= maxConcurrent

\* Variant: the drain loop stops while one task is still in flight.
DrainPendingOffByOne(set) == Cardinality(set) > 1

\* Variant: main does not drain.
DrainPendingNever(set) == FALSE

\* while (inFlight.size > 0) of the drain loop.
DrainPending(set) == Cardinality(set) > 0

\* ------------------------------------------------------------------- Init
Init ==
  /\ lines \in PromptFiles
  /\ maxConcurrent \in 1..MaxConcurrent
  /\ pricing \in {p \in Pricings : \A q \in p :
                    Cardinality(NonBlank(lines)) <=
                      IF q.known.prompt /\ q.known.completion /\ q.known.request
                        THEN MaxPricedPrompts
                        ELSE MaxPricedPrompts - 1}
  /\ bar \in {b \in BOOLEAN : b => NonBlank(lines) # {}}
  /\ pc = "read"
  /\ lineNum = 0
  /\ promptIndex = 0
  /\ tasks = <<>>
  /\ inFlight = {}
  /\ raceOn = {}
  /\ writeChain = <<>>
  /\ rows = <<>>
  /\ outEnded = FALSE
  /\ completed = 0
  /\ okCount = 0
  /\ errCount = 0
  /\ spentUsd = 0
  /\ snapshot = IF bar THEN {Stats(0, 0, 0, 0)} ELSE {}
  /\ seen = IF bar THEN <<0>> ELSE <<>>
  /\ env = [RunEnv EXCEPT !.lookup = IF pricing = {} THEN "none" ELSE "found"]
  /\ warned = PricingWarnings
  /\ exitCode = {}
  /\ outOpened = TRUE
  /\ printed = {}
  /\ fnIn = NoCall
  /\ fnOut = NoCall

\* ------------------------------------------------------------ microtasks
\* A promise reaction is ready to run.
MainCanResume ==
  /\ pc \in {"wait", "drain"}
  /\ \E t \in raceOn : tasks[t].st = "deleted"

MicrotaskPending ==
  \/ pc = "admit"
  \/ MainCanResume
  \/ \E t \in TaskIds : tasks[t].st = "settled"
  \/ \E t \in TaskIds :
       /\ tasks[t].st = "writing"
       /\ writeChain[EntryOf(t)].st \in {"fulfilled", "rejected"}
  \/ \E i \in 1..Len(writeChain) :
       /\ writeChain[i].st = "pending"
       /\ (PrevFulfilled(i) \/ PrevRejected(i))

\* ------------------------------------------------------------------ main
\* Variant: main ends without bar.finish().
FinishWithoutStats ==
  /\ pc' = "done"
  /\ outEnded' = TRUE
  /\ UNCHANGED <<snapshot, seen>>
  /\ raceOn' = {}

\* out.end() and bar.finish() after the drain loop.
Finish ==
  /\ pc' = "done"
  /\ outEnded' = TRUE
  /\ snapshot' = IF bar THEN {Stats(completed, okCount, errCount, spentUsd)}
                 ELSE snapshot
  /\ seen' = IF bar THEN Append(seen, completed) ELSE seen
  /\ raceOn' = {}

\* One iteration of "for await (const line of rl)" up to its first await:
\* a blank line continues, a prompt enters waitForSlot.
ReadLine ==
  /\ pc = "read"
  /\ lineNum < Len(lines)
  /\ lineNum' = lineNum + 1
  /\ IF Len(Trim(lines[lineNum + 1])) = 0
       THEN UNCHANGED <<pc, raceOn>>
       ELSE IF SlotTaken(inFlight)
              THEN pc' = "wait" /\ raceOn' = inFlight
              ELSE pc' = "admit" /\ UNCHANGED raceOn
  /\ UNCHANGED <<inputs, promptIndex, tasks, inFlight, writeChain, rows,
                 outEnded, completed, okCount, errCount, warned, spentUsd,
                 snapshot, seen>>

\* The prompt source is exhausted: the drain loop, then the end of main.
EndOfInput ==
  /\ pc = "read"
  /\ lineNum = Len(lines)
  /\ IF DrainPending(inFlight)
       THEN /\ pc' = "drain"
            /\ raceOn' = inFlight
            /\ UNCHANGED <<outEnded, snapshot, seen>>
       ELSE Finish
  /\ UNCHANGED <<inputs, lineNum, promptIndex, tasks, inFlight, writeChain,
                 rows, completed, okCount, errCount, warned, spentUsd>>

\* Variant: a read error is counted as an err and the loop goes on with
\* the next line.
ReadErrorSkipsLine ==
  /\ pc = "read"
  /\ lineNum < Len(lines)
  /\ ~MicrotaskPending
  /\ lineNum' = lineNum + 1
  /\ errCount' = errCount + 1
  /\ UNCHANGED <<inputs, pc, promptIndex, tasks, inFlight, raceOn,
                 writeChain, rows, outEnded, completed, okCount, warned,
                 spentUsd, snapshot, seen>>

\* The read stream fails: the for-await loop throws out of main.
ReadError ==
  /\ pc = "read"
  /\ lineNum < Len(lines)
  /\ ~MicrotaskPending
  /\ pc' = "failed"
  /\ UNCHANGED <<inputs, lineNum, promptIndex, tasks, inFlight, raceOn,
                 writeChain, rows, outEnded, completed, okCount, errCount,
                 warned, spentUsd, snapshot, seen>>

\* Variant: the task is given the prompt index, counted from 1, as its line.
ScheduleByPromptIndex ==
  /\ pc = "admit"
  /\ tasks' = Append(tasks, [line |-> promptIndex + 1,
                             prompt |-> Trim(lines[lineNum]),
                             st |-> "calling", call |-> "pending",
                             answered |-> {}, outcome |-> "none",
                             cost |-> 0])
  /\ inFlight' = inFlight \cup {Len(tasks) + 1}
  /\ promptIndex' = promptIndex + 1
  /\ pc' = "read"
  /\ UNCHANGED <<inputs, lineNum, raceOn, writeChain, rows, outEnded,
                 completed, okCount, errCount, warned, spentUsd, snapshot,
                 seen>>

\* schedule(promptIndex, lineNum, prompt); promptIndex++ after waitForSlot
\* returned.  The task runs up to the fetch of callOpenRouter.
Schedule ==
  /\ pc = "admit"
  /\ tasks' = Append(tasks, [line |-> lineNum, prompt |-> Trim(lines[lineNum]),
                             st |-> "calling", call |-> "pending",
                             answered |-> {}, outcome |-> "none",
                             cost |-> 0])
  /\ inFlight' = inFlight \cup {Len(tasks) + 1}
  /\ promptIndex' = promptIndex + 1
  /\ pc' = "read"
  /\ UNCHANGED <<inputs, lineNum, raceOn, writeChain, rows, outEnded,
                 completed, okCount, errCount, warned, spentUsd, snapshot,
                 seen>>

\* Promise.race(inFlight) settled: main re-tests its loop condition.
RaceSettles ==
  /\ MainCanResume
  /\ IF pc = "wait"
       THEN /\ IF SlotTaken(inFlight)
                 THEN pc' = "wait" /\ raceOn' = inFlight
                 ELSE pc' = "admit" /\ raceOn' = {}
            /\ UNCHANGED <<outEnded, snapshot, seen>>
       ELSE IF DrainPending(inFlight)
              THEN /\ pc' = "drain"
                   /\ raceOn' = inFlight
                   /\ UNCHANGED <<outEnded, snapshot, seen>>
              ELSE Finish
  /\ UNCHANGED <<inputs, lineNum, promptIndex, tasks, inFlight, writeChain,
                 rows, completed, okCount, errCount, warned, spentUsd>>

\* ----------------------------------------------------------------- tasks
\* Variant: completed++ is at the end of the try block, not in finally.
RecordErrSkipsCompleted(t, how) ==
  /\ errCount' = errCount + 1
  /\ completed' = completed
  /\ tasks' = [tasks EXCEPT ![t].st = "settled", ![t].call = how,
                            ![t].outcome = "err"]
  /\ warned' = warned \cup {ErrLine(tasks[t].line)}
  /\ renderProgress(completed, okCount, errCount + 1, spentUsd)
  /\ UNCHANGED okCount

\* The catch and finally blocks of a task: errCount++, completed++,
\* renderProgress(); the task's promise is then fulfilled.  how is "threw"
\* when callOpenRouter threw and "returned" when the write was rejected.
RecordErr(t, how) ==
  /\ errCount' = errCount + 1
  /\ completed' = completed + 1
  /\ tasks' = [tasks EXCEPT ![t].st = "settled", ![t].call = how,
                            ![t].outcome = "err"]
  /\ warned' = warned \cup {ErrLine(tasks[t].line)}
  /\ renderProgress(completed + 1, okCount, errCount + 1, spentUsd)
  /\ UNCHANGED okCount

\* Variant: the finally block does not call renderProgress().
RecordOkNoRender(t) ==
  /\ okCount' = okCount + 1
  /\ completed' = completed + 1
  /\ tasks' = [tasks EXCEPT ![t].st = "settled", ![t].outcome = "ok"]
  /\ UNCHANGED <<snapshot, seen, errCount, warned>>

\* okCount++ and the finally block.
RecordOk(t) ==
  /\ okCount' = okCount + 1
  /\ completed' = completed + 1
  /\ tasks' = [tasks EXCEPT ![t].st = "settled", ![t].outcome = "ok"]
  /\ renderProgress(completed + 1, okCount + 1, errCount, spentUsd)
  /\ UNCHANGED <<errCount, warned>>

\* The amount a task adds to spentUsd when its call returned usage.
SpendOf(usage) ==
  IF canTrackSpend
    THEN calculateOpenRouterSpendUSD(CHOOSE p \in pricing : TRUE, usage)
    ELSE 0

\* writeJsonlLine(line): writeQueue = writeQueue.then(...).
writeJsonlLine(t) ==
  writeChain' = Append(writeChain, [task |-> t, st |-> "pending"])

\* Variant: only the type of the content is tested.
callOpenRouterAcceptsEmpty(r) ==
  IF r.status # "ok" THEN [threw |-> TRUE, content |-> <<>>, usage |-> {}]
  ELSE LET content == IF r.content.type = "undefined"
                        THEN [type |-> "string", text |-> <<>>]
                        ELSE r.content
       IN IF content.type # "string"
            THEN [threw |-> TRUE, content |-> <<>>, usage |-> {}]
            ELSE [threw |-> FALSE, content |-> content.text,
                  usage |-> r.usage]

\* callOpenRouter on the response r of fetch: it throws when fetch rejected,
\* when the status is not a success and when (message.content ?? "") is not
\* a string or is empty; it returns the content and the usage otherwise.
callOpenRouter(r) ==
  IF r.status # "ok" THEN [threw |-> TRUE, content |-> <<>>, usage |-> {}]
  ELSE LET content == IF r.content.type = "undefined"
                        THEN [type |-> "string", text |-> <<>>]
                        ELSE r.content
       IN IF content.type # "string" \/ Len(content.text) = 0
            THEN [threw |-> TRUE, content |-> <<>>, usage |-> {}]
            ELSE [threw |-> FALSE, content |-> content.text,
                  usage |-> r.usage]

\* callOpenRouter returned on the response r: the task adds its cost and
\* calls writeJsonlLine.
CallReturns(t, r) ==
  /\ tasks[t].st = "calling"
  /\ ~MicrotaskPending
  /\ ~callOpenRouter(r).threw
  /\ spentUsd' = spentUsd + SpendOf(callOpenRouter(r).usage)
  /\ tasks' = [tasks EXCEPT ![t].st = "writing", ![t].call = "returned",
                            ![t].answered =
                                {[status |-> r.status, content |-> r.content]},
                            ![t].cost = SpendOf(callOpenRouter(r).usage)]
  /\ writeJsonlLine(t)
  /\ UNCHANGED <<inputs, pc, lineNum, promptIndex, inFlight, raceOn, rows,
                 outEnded, completed, okCount, errCount, warned, snapshot,
                 seen>>

\* Variant: the error of callOpenRouter is rethrown and ends main.
CallThrowsAborts(t) ==
  /\ tasks[t].st = "calling"
  /\ ~MicrotaskPending
  /\ RecordErr(t, "threw")
  /\ pc' = "failed"
  /\ UNCHANGED <<inputs, lineNum, promptIndex, inFlight, raceOn,
                 writeChain, rows, outEnded, spentUsd>>

\* Variant: the row is written in the finally block, also after a throw.
CallThrowsWritesRow(t) ==
  /\ tasks[t].st = "calling"
  /\ ~MicrotaskPending
  /\ RecordErr(t, "threw")
  /\ writeJsonlLine(t)
  /\ UNCHANGED <<inputs, pc, lineNum, promptIndex, inFlight, raceOn,
                 rows, outEnded, spentUsd>>

\* callOpenRouter threw (fetch failed, status not ok, no content).
CallThrows(t) ==
  /\ tasks[t].st = "calling"
  /\ ~MicrotaskPending
  /\ RecordErr(t, "threw")
  /\ UNCHANGED <<inputs, pc, lineNum, promptIndex, inFlight, raceOn,
                 writeChain, rows, outEnded, spentUsd>>

\* The then-callback of the write chain: out.write(line, callback).
IssueWrite(i) ==
  /\ writeChain[i].st = "pending"
  /\ PrevFulfilled(i)
  /\ writeChain' = [writeChain EXCEPT ![i].st = "issued"]
  /\ UNCHANGED <<inputs, pc, lineNum, promptIndex, tasks, inFlight, raceOn,
                 rows, outEnded, completed, okCount, errCount, warned,
                 spentUsd, snapshot, seen>>

\* Variant: the chain handles the rejection and writes the next line
\* (writeQueue.catch(() => {}).then(fn)).
PassRejectionRecovers(i) ==
  /\ writeChain[i].st = "pending"
  /\ PrevRejected(i)
  /\ writeChain' = [writeChain EXCEPT ![i].st = "issued"]
  /\ UNCHANGED <<inputs, pc, lineNum, promptIndex, tasks, inFlight, raceOn,
                 rows, outEnded, completed, okCount, errCount, warned,
                 spentUsd, snapshot, seen>>

\* then() without a rejection handler passes the rejection on.
PassRejection(i) ==
  /\ writeChain[i].st = "pending"
  /\ PrevRejected(i)
  /\ writeChain' = [writeChain EXCEPT ![i].st = "rejected"]
  /\ UNCHANGED <<inputs, pc, lineNum, promptIndex, tasks, inFlight, raceOn,
                 rows, outEnded, completed, okCount, errCount, warned,
                 spentUsd, snapshot, seen>>

\* The stream wrote the line and calls back without an error: resolve().
WriteDone(i) ==
  /\ writeChain[i].st = "issued"
  /\ ~MicrotaskPending
  /\ writeChain' = [writeChain EXCEPT ![i].st = "fulfilled"]
  /\ rows' = Append(rows, writeChain[i].task)
  /\ UNCHANGED <<inputs, pc, lineNum, promptIndex, tasks, inFlight, raceOn,
                 outEnded, completed, okCount, errCount, warned, spentUsd,
                 snapshot, seen>>

\* The stream calls back with an error: reject(err).
WriteFails(i) ==
  /\ writeChain[i].st = "issued"
  /\ ~MicrotaskPending
  /\ writeChain' = [writeChain EXCEPT ![i].st = "rejected"]
  /\ UNCHANGED <<inputs, pc, lineNum, promptIndex, tasks, inFlight, raceOn,
                 rows, outEnded, completed, okCount, errCount, warned,
                 spentUsd, snapshot, seen>>

\* The task resumes from "await writeJsonlLine(...)".
WriteSettles(t) ==
  /\ tasks[t].st = "writing"
  /\ \/ writeChain[EntryOf(t)].st = "fulfilled" /\ RecordOk(t)
     \/ writeChain[EntryOf(t)].st = "rejected" /\ RecordErr(t, "returned")
  /\ UNCHANGED <<inputs, pc, lineNum, promptIndex, inFlight, raceOn,
                 writeChain, rows, outEnded, spentUsd>>

\* p.finally(() => inFlight.delete(p)).
DeleteOnSettle(t) ==
  /\ tasks[t].st = "settled"
  /\ inFlight' = inFlight \ {t}
  /\ tasks' = [tasks EXCEPT ![t].st = "deleted"]
  /\ UNCHANGED <<inputs, pc, lineNum, promptIndex, raceOn, writeChain, rows,
                 outEnded, completed, okCount, errCount, warned, spentUsd,
                 snapshot, seen>>

Next ==
  \/ ReadLine
  \/ EndOfInput
  \/ ReadError
  \/ Schedule
  \/ RaceSettles
  \/ \E t \in TaskIds : \E r \in Responses : CallReturns(t, r)
  \/ \E t \in TaskIds : \E r \in Responses :
       callOpenRouter(r).threw /\ CallThrows(t)
  \/ \E i \in 1..Len(writeChain) : IssueWrite(i)
  \/ \E i \in 1..Len(writeChain) : PassRejection(i)
  \/ \E i \in 1..Len(writeChain) : WriteDone(i)
  \/ \E i \in 1..Len(writeChain) : WriteFails(i)
  \/ \E t \in TaskIds : WriteSettles(t)
  \/ \E t \in TaskIds : DeleteOnSettle(t)

Spec == Init /\ [][Next]_vars

\* A run in which the prompts file is read to its end, every remote call
\* returns or throws and every write is acknowledged.  The event loop runs
\* every reaction that is ready, so a step that can be taken is taken.
NextLive ==
  \/ ReadLine
  \/ EndOfInput
  \/ Schedule
  \/ RaceSettles
  \/ \E t \in TaskIds : \E r \in Responses : CallReturns(t, r)
  \/ \E t \in TaskIds : \E r \in Responses :
       callOpenRouter(r).threw /\ CallThrows(t)
  \/ \E i \in 1..Len(writeChain) : IssueWrite(i)
  \/ \E i \in 1..Len(writeChain) : WriteDone(i)
  \/ \E t \in TaskIds : WriteSettles(t)
  \/ \E t \in TaskIds : DeleteOnSettle(t)

\* The pricing has no part in the scheduling: the runs are those without.
InitLive == Init /\ pricing = {}

SpecLive == InitLive /\ [][NextLive]_vars /\ WF_vars(NextLive)

\* --------------------------------------------------- derived quantities
\* The number of non-blank lines of the prompts file.
NumPrompts == Cardinality(NonBlank(lines))

\* Tasks whose finally block has run.
Recorded == {t \in TaskIds : tasks[t].outcome # "none"}
RecordedAs(o) == {t \in TaskIds : tasks[t].outcome = o}

\* Tasks scheduled and not yet settled.
Unsettled == {t \in TaskIds : tasks[t].st \in {"calling", "writing"}}

\* The tasks that called writeJsonlLine, in the order of their calls.
AppendCalls == [i \in 1..Len(writeChain) |-> writeChain[i].task]

\* ------------------------------------------------- main before the pipeline
\* What main may find (index.ts:375-413): parseArgs returns or throws,
\* API_KEY is set or not, and the prompts path is a readable file ("ok"),
\* does not exist ("missing"), is not a regular file ("notfile") or fails
\* fs.access ("unreadable").
Envs ==
  {e \in [argsOk : BOOLEAN, apiKey : BOOLEAN,
          file : {"ok", "missing", "notfile", "unreadable"},
          openRouter : BOOLEAN, lookup : {"threw", "none", "found"}] :
     ~e.openRouter => e.lookup = "none"}

\* console.error(message); process.exit(1)
ExitWith(message) ==
  /\ printed' = printed \cup {message}
  /\ exitCode' = {1}
  /\ pc' = "exited"

\* try { parsed = parseArgs(argv) } catch { ... }
ParseArgv ==
  /\ pc = "parse"
  /\ IF env.argsOk THEN pc' = "key" /\ UNCHANGED <<printed, exitCode>>
     ELSE ExitWith("usage")
  /\ UNCHANGED <<lines, maxConcurrent, pricing, bar, lineNum, promptIndex,
                 tasks, inFlight, raceOn, writeChain, rows, outEnded,
                 completed, okCount, errCount, warned, spentUsd, snapshot,
                 seen, env, outOpened, fnIn, fnOut>>

\* if (!apiKey) { ... }
CheckApiKey ==
  /\ pc = "key"
  /\ IF env.apiKey THEN pc' = "file" /\ UNCHANGED <<printed, exitCode>>
     ELSE ExitWith("Missing env var")
  /\ UNCHANGED <<lines, maxConcurrent, pricing, bar, lineNum, promptIndex,
                 tasks, inFlight, raceOn, writeChain, rows, outEnded,
                 completed, okCount, errCount, warned, spentUsd, snapshot,
                 seen, env, outOpened, fnIn, fnOut>>

\* Variant: ensureReadableFile only tests that the path exists.
EnsureReadableOnlyExists ==
  /\ pc = "file"
  /\ IF env.file # "missing"
       THEN pc' = "setup" /\ UNCHANGED <<printed, exitCode>>
       ELSE ExitWith("File not found")
  /\ UNCHANGED <<lines, maxConcurrent, pricing, bar, lineNum, promptIndex,
                 tasks, inFlight, raceOn, writeChain, rows, outEnded,
                 completed, okCount, errCount, warned, spentUsd, snapshot,
                 seen, env, outOpened, fnIn, fnOut>>

\* try { await ensureReadableFile(absPromptsPath) } catch { ... }
EnsureReadable ==
  /\ pc = "file"
  /\ IF env.file = "ok"
       THEN pc' = "setup" /\ UNCHANGED <<printed, exitCode>>
       ELSE ExitWith(CASE env.file = "missing" -> "File not found"
                       [] env.file = "notfile" -> "Not a file"
                       [] OTHER -> "EACCES")
  /\ UNCHANGED <<lines, maxConcurrent, pricing, bar, lineNum, promptIndex,
                 tasks, inFlight, raceOn, writeChain, rows, outEnded,
                 completed, okCount, errCount, warned, spentUsd, snapshot,
                 seen, env, outOpened, fnIn, fnOut>>

\* Variant: a pricing lookup that throws ends main.
OpenStreamsLookupFatal ==
  /\ pc = "setup"
  /\ IF env.openRouter /\ env.lookup = "threw"
       THEN /\ ExitWith("Failed to fetch OpenRouter models/pricing")
            /\ UNCHANGED <<warned, outOpened, rows, snapshot, seen>>
       ELSE /\ warned' = warned \cup PricingWarnings
            /\ outOpened' = TRUE
            /\ rows' = <<>>
            /\ snapshot' = IF bar THEN {Stats(0, 0, 0, 0)} ELSE {}
            /\ seen' = IF bar THEN <<0>> ELSE <<>>
            /\ pc' = "read"
            /\ UNCHANGED <<exitCode, printed>>
  /\ UNCHANGED <<lines, maxConcurrent, pricing, bar, lineNum, promptIndex,
                 tasks, inFlight, raceOn, writeChain, outEnded, completed,
                 okCount, errCount, spentUsd, env, fnIn, fnOut>>

\* Variant: the output stream is opened with the flag "a".
OpenStreamsAppends ==
  /\ pc = "setup"
  /\ warned' = warned \cup PricingWarnings
  /\ outOpened' = TRUE
  /\ snapshot' = IF bar THEN {Stats(0, 0, 0, 0)} ELSE {}
  /\ seen' = IF bar THEN <<0>> ELSE <<>>
  /\ pc' = "read"
  /\ UNCHANGED <<lines, maxConcurrent, pricing, bar, lineNum, promptIndex,
                 tasks, inFlight, raceOn, writeChain, rows, outEnded,
                 completed, okCount, errCount, spentUsd, env, exitCode,
                 printed, fnIn, fnOut>>

\* index.ts:415-501: the prompts are counted and the pricing is looked up
\* (their results are lines, bar and pricing; the lookup writes its WARN
\* lines), the streams are opened, which empties the output file, and the
\* bar is rendered for the first time.
OpenStreams ==
  /\ pc = "setup"
  /\ warned' = warned \cup PricingWarnings
  /\ outOpened' = TRUE
  /\ rows' = <<>>
  /\ snapshot' = IF bar THEN {Stats(0, 0, 0, 0)} ELSE {}
  /\ seen' = IF bar THEN <<0>> ELSE <<>>
  /\ pc' = "read"
  /\ UNCHANGED <<lines, maxConcurrent, pricing, bar, lineNum, promptIndex,
                 tasks, inFlight, raceOn, writeChain, outEnded, completed,
                 okCount, errCount, spentUsd, env, exitCode, printed, fnIn,
                 fnOut>>

\* main is called: nothing is opened, nothing is read.  A path that is not
\* a readable file has no lines.  The output file holds a line of an
\* earlier run.  A run for which the lookup returns pricing has fewer than
\* MaxPricedPrompts prompts.
InitMain ==
  /\ env \in Envs
  /\ lines \in {f \in PromptFiles : env.file # "ok" => f = <<>>}
  /\ maxConcurrent \in 1..MaxConcurrent
  /\ pricing \in {p \in Pricings :
                    /\ p # {} => Cardinality(NonBlank(lines)) < MaxPricedPrompts
                    /\ p # {} <=> env.openRouter /\ env.lookup = "found"}
  /\ bar \in {b \in BOOLEAN : b => NonBlank(lines) # {}}
  /\ pc = "parse"
  /\ lineNum = 0
  /\ promptIndex = 0
  /\ tasks = <<>>
  /\ inFlight = {}
  /\ raceOn = {}
  /\ writeChain = <<>>
  /\ rows = <<0>>
  /\ outEnded = FALSE
  /\ completed = 0
  /\ okCount = 0
  /\ errCount = 0
  /\ spentUsd = 0
  /\ snapshot = {}
  /\ seen = <<>>
  /\ warned = {}
  /\ exitCode = {}
  /\ outOpened = FALSE
  /\ printed = {}
  /\ fnIn = NoCall
  /\ fnOut = NoCall

NextMain ==
  \/ ParseArgv
  \/ CheckApiKey
  \/ EnsureReadable
  \/ OpenStreams
  \/ Next

SpecMain == InitMain /\ [][NextMain]_vars

\* ---------------------------------------------------- the output messages
\* The state of the pipeline while an exported function is called on its
\* own.
NotRunning ==
  /\ lines = <<>>
  /\ maxConcurrent = 1
  /\ pricing = {}
  /\ bar = FALSE
  /\ pc = "none"
  /\ lineNum = 0
  /\ promptIndex = 0
  /\ tasks = <<>>
  /\ inFlight = {}
  /\ raceOn = {}
  /\ writeChain = <<>>
  /\ rows = <<>>
  /\ outEnded = FALSE
  /\ completed = 0
  /\ okCount = 0
  /\ errCount = 0
  /\ spentUsd = 0
  /\ snapshot = {}
  /\ seen = <<>>
  /\ warned = {}
  /\ env = RunEnv
  /\ exitCode = {}
  /\ outOpened = FALSE
  /\ printed = {}

pipeline == <<lines, maxConcurrent, pricing, bar, pc, lineNum, promptIndex,
              tasks, inFlight, raceOn, writeChain, rows, outEnded,
              completed, okCount, errCount, spentUsd, snapshot, seen,
              warned, env, exitCode, outOpened, printed>>

\* data.choices[0].message.reasoning: undefined, a string, or a value of
\* another type.
Reasonings ==
  {[type |-> "undefined", text |-> <<>>], [type |-> "object", text |-> <<>>]}
    \cup {[type |-> "string", text |-> t] : t \in Texts}

Message(role, content) == [role |-> role, content |-> content]

buildRequestMessages(systemPrompt, userPrompt) ==
  IF Len(Trim(systemPrompt)) > 0
    THEN <<Message("system", systemPrompt), Message("user", userPrompt)>>
    ELSE <<Message("user", userPrompt)>>

\* Variant: the test is on reasoning.length, not on the trimmed string.
formatAssistantContentNoTrim(content, reasoning) ==
  IF reasoning.type = "string" /\ Len(reasoning.text) > 0
    THEN <<"<think>">> \o reasoning.text \o <<"</think>", "\n">> \o content
    ELSE content

\* The markers "<think>" and "</think>" are one element each.
formatAssistantContent(content, reasoning) ==
  IF reasoning.type = "string" /\ Len(Trim(reasoning.text)) > 0
    THEN <<"<think>">> \o reasoning.text \o <<"</think>", "\n">> \o content
    ELSE content

\* Variant: the system message is stored whenever one was sent.
buildOutputMessagesIgnoresFlag(systemPrompt, userPrompt, assistantContent, storeSystem) ==
  IF Len(Trim(systemPrompt)) > 0
    THEN <<Message("system", systemPrompt), Message("user", userPrompt),
           Message("assistant", assistantContent)>>
    ELSE <<Message("user", userPrompt),
           Message("assistant", assistantContent)>>

buildOutputMessages(systemPrompt, userPrompt, assistantContent, storeSystem) ==
  LET hasSystem == Len(Trim(systemPrompt)) > 0
  IN IF hasSystem /\ storeSystem
       THEN <<Message("system", systemPrompt), Message("user", userPrompt),
              Message("assistant", assistantContent)>>
       ELSE <<Message("user", userPrompt),
              Message("assistant", assistantContent)>>

FormatCalls ==
  {[fn |-> "formatAssistantContent", content |-> c, reasoning |-> r] :
     c \in Texts, r \in Reasonings}

\* What a task does with a response (index.ts:543-549), and the request it
\* sent before (callOpenRouter, index.ts:289).
MessageCalls ==
  {[fn |-> "buildOutputMessages", systemPrompt |-> sp, userPrompt |-> <<"a">>,
    content |-> <<"a">>, reasoning |-> r, storeSystem |-> b] :
     sp \in Texts, b \in BOOLEAN,
     r \in {x \in Reasonings : Len(x.text) <= 1}}

ApplyFormat ==
  /\ fnIn.fn = "formatAssistantContent"
  /\ fnOut = NoCall
  /\ fnOut' = [fn |-> fnIn.fn,
               value |-> formatAssistantContent(fnIn.content, fnIn.reasoning)]
  /\ UNCHANGED <<pipeline, fnIn>>

ApplyMessages ==
  /\ fnIn.fn = "buildOutputMessages"
  /\ fnOut = NoCall
  /\ fnOut' =
       [fn |-> fnIn.fn,
        request |-> buildRequestMessages(fnIn.systemPrompt, fnIn.userPrompt),
        value |-> buildOutputMessages(
                    fnIn.systemPrompt, fnIn.userPrompt,
                    formatAssistantContent(fnIn.content, fnIn.reasoning),
                    fnIn.storeSystem)]
  /\ UNCHANGED <<pipeline, fnIn>>

\* ---------------------------------------------------------- raw arguments
\* A raw option value is a string or a boolean (Record<string, string |
\* boolean>); an absent key is the empty set.
StrVal(text) == [t |-> "string", b |-> FALSE, s |-> text]
BoolVal(b) == [t |-> "boolean", b |-> b, s |-> <<>>]

Get(args, k) == IF k \in DOMAIN args THEN {args[k]} ELSE {}
Put(args, k, v) ==
  [x \in DOMAIN args \cup {k} |-> IF x = k THEN v ELSE args[x]]

\* JavaScript's ToBoolean of a raw value or undefined.
Truthy(opt) ==
  \E v \in opt : IF v.t = "boolean" THEN v.b ELSE Len(v.s) > 0

\* A token of argv: dashes is token.startsWith("--"); a token with dashes
\* is "--" key, followed by "=" text when eq.
Flag(k) == [dashes |-> TRUE, key |-> k, eq |-> FALSE, text |-> <<>>]
FlagEq(k, text) == [dashes |-> TRUE, key |-> k, eq |-> TRUE, text |-> text]
Word(text) == [dashes |-> FALSE, key |-> "", eq |-> FALSE, text |-> text]

\* The loop of parseRawArgs from argv[i] (1-based) on.
RECURSIVE parseRawArgsFrom(_, _, _)
parseRawArgsFrom(argv, i, args) ==
  IF i > Len(argv) THEN args
  ELSE LET token == argv[i]
           noNext == IF i + 1 > Len(argv) THEN TRUE
                     ELSE argv[i + 1].dashes \/ argv[i + 1].text = <<>>
       IN IF ~token.dashes THEN parseRawArgsFrom(argv, i + 1, args)
          ELSE IF token.eq
            THEN parseRawArgsFrom(argv, i + 1,
                   IF token.key # "" THEN Put(args, token.key, StrVal(token.text))
                   ELSE args)
          ELSE IF noNext
            THEN parseRawArgsFrom(argv, i + 1,
                                  Put(args, token.key, BoolVal(TRUE)))
            ELSE parseRawArgsFrom(argv, i + 2,
                                  Put(args, token.key, StrVal(argv[i + 1].text)))

parseRawArgs(argv) == parseRawArgsFrom(argv, 1, <<>>)

\* ---------------------------------------------------------------- Number
\* A number: NaN, an infinity (m is its sign) or m / 10^d.
NaN == [k |-> "nan", m |-> 0, d |-> 0]
Infinite(sign) == [k |-> "inf", m |-> sign, d |-> 0]
Finite(m, d) == [k |-> "fin", m |-> m, d |-> d]

Digits == <<"0", "1", "2", "3", "4", "5", "6", "7", "8", "9">>
DigitValue(c) == (CHOOSE i \in 1..10 : Digits[i] = c) - 1

RECURSIVE DigitsValue(_)
DigitsValue(s) ==
  IF s = <<>> THEN 0
  ELSE 10 * DigitsValue(SubSeq(s, 1, Len(s) - 1)) + DigitValue(s[Len(s)])

RECURSIVE Pow10(_)
Pow10(n) == IF n = 0 THEN 1 ELSE 10 * Pow10(n - 1)

InfinityText == <<"I", "n", "f", "i", "n", "i", "t", "y">>

\* StrDecimalLiteral without an exponent: digits, "digits.", ".digits" or
\* "digits.digits".
IsDecimalText(s) ==
  /\ \A i \in 1..Len(s) : s[i] \in Range(Digits) \cup {"."}
  /\ Cardinality({i \in 1..Len(s) : s[i] = "."}) <= 1
  /\ \E i \in 1..Len(s) : s[i] # "."

DecimalValue(s) ==
  LET points == {i \in 1..Len(s) : s[i] = "."}
      cut == IF points = {} THEN Len(s) + 1 ELSE CHOOSE i \in points : TRUE
      whole == SubSeq(s, 1, cut - 1)
      fraction == SubSeq(s, cut + 1, Len(s))
  IN Finite(DigitsValue(whole \o fraction), Len(fraction))

\* Number(text) for texts without an exponent or a radix prefix.
StringToNumber(text) ==
  LET s == Trim(text)
      signed == s # <<>> /\ Head(s) \in {"-", "+"}
      sign == IF s # <<>> /\ Head(s) = "-" THEN -1 ELSE 1
      body == IF signed THEN Tail(s) ELSE s
  IN IF s = <<>> THEN Finite(0, 0)
     ELSE IF body = InfinityText THEN Infinite(sign)
     ELSE IF IsDecimalText(body)
       THEN Finite(sign * DecimalValue(body).m, DecimalValue(body).d)
     ELSE NaN

\* Number(raw)
NumberOf(v) ==
  IF v.t = "boolean" THEN Finite(IF v.b THEN 1 ELSE 0, 0)
  ELSE StringToNumber(v.s)

\* Math.floor
Floor(x) == IF x.k = "fin" THEN Finite(x.m \div Pow10(x.d), 0) ELSE x

\* Variant: the test "> 0" is made on the number before Math.floor.
concurrentOfTestsBeforeFloor(opt) ==
  IF opt = {} THEN 1
  ELSE LET x == NumberOf(CHOOSE v \in opt : TRUE)
       IN IF x.k = "fin" /\ x.m > 0 THEN Floor(x).m ELSE 1

\* index.ts:171-177
concurrentOf(opt) ==
  IF opt = {} THEN 1
  ELSE LET concurrentParsed == Floor(NumberOf(CHOOSE v \in opt : TRUE))
       IN IF concurrentParsed.k = "fin" /\ concurrentParsed.m > 0
            THEN concurrentParsed.m
            ELSE 1

\* const maxConcurrent = Math.max(1, concurrent)
maxConcurrentOf(concurrent) == IF concurrent > 1 THEN concurrent ELSE 1

\* -------------------------------------------------------------- parseArgs
\* String(raw)
StringOf(v) ==
  IF v.t = "string" THEN v.s
  ELSE IF v.b THEN <<"t", "r", "u", "e">> ELSE <<"f", "a", "l", "s", "e">>

UpperCase == <<"A", "E", "F", "L", "R", "S", "T", "U">>
LowerCase == <<"a", "e", "f", "l", "r", "s", "t", "u">>

\* String.prototype.toLowerCase, for the letters of "true" and "false".
ToLowerCase(s) ==
  [i \in 1..Len(s) |->
     IF s[i] \in Range(UpperCase)
       THEN LowerCase[CHOOSE j \in 1..Len(UpperCase) : UpperCase[j] = s[i]]
       ELSE s[i]]

\* (args.key as string) || fallback
OrDefault(opt, fallback) ==
  IF Truthy(opt) THEN CHOOSE v \in opt : TRUE ELSE StrVal(fallback)

\* raw === undefined ? true : String(raw).toLowerCase() !== "false"
NotFalse(opt) ==
  \A v \in opt : ToLowerCase(StringOf(v)) # <<"f", "a", "l", "s", "e">>

\* typeof raw === "string" && raw.trim().length > 0 ? raw.trim() : null
TrimmedOrNull(opt) ==
  {Trim(v.s) : v \in {w \in opt : w.t = "string" /\ Len(Trim(w.s)) > 0}}

RECURSIVE Split(_, _)
Split(s, sep) ==
  LET at == {i \in 1..Len(s) : s[i] = sep}
  IN IF at = {} THEN <<s>>
     ELSE LET i == CHOOSE j \in at : \A k \in at : j <= k
          IN <<SubSeq(s, 1, i - 1)>> \o Split(SubSeq(s, i + 1, Len(s)), sep)

NonEmptyText(s) == Len(s) > 0

\* raw.split(",").map((s) => s.trim()).filter((s) => s.length > 0)
ProviderOrder(opt) ==
  {SelectSeq([i \in 1..Len(Split(v.s, ",")) |-> Trim(Split(v.s, ",")[i])],
             NonEmptyText) :
     v \in {w \in opt : w.t = "string" /\ Len(Trim(w.s)) > 0}}

DefaultOut == <<"d", "a", "t", "a", "s", "e", "t", ".", "j", "s", "o", "n", "l">>
DefaultApi == <<"https://openrouter.ai/api/v1">>

\* What a call returns or throws: threw is "none", "usage" (the message
\* holds the usage line) or "config" (loadConfigRawArgs threw).
Returned(value) == [threw |-> "none", value |-> {value}]
Threw(kind) == [threw |-> kind, value |-> {}]

parseArgsFromRaw(args) ==
  LET model == OrDefault(Get(args, "model"), <<>>)
      promptsPath == OrDefault(Get(args, "prompts"), <<>>)
  IN IF ~Truthy({model}) \/ ~Truthy({promptsPath}) THEN Threw("usage")
     ELSE Returned([model |-> model,
                    promptsPath |-> promptsPath,
                    outPath |-> OrDefault(Get(args, "out"), DefaultOut),
                    apiBase |-> OrDefault(Get(args, "api"), DefaultApi),
                    systemPrompt |-> OrDefault(Get(args, "system"), <<>>),
                    storeSystem |-> NotFalse(Get(args, "store-system")),
                    progress |-> NotFalse(Get(args, "progress"))
                                   /\ Get(args, "no-progress") = {},
                    concurrent |-> concurrentOf(Get(args, "concurrent")),
                    openrouterProviderOrder |->
                        ProviderOrder(Get(args, "openrouter.provider")),
                    openrouterProviderSort |->
                        TrimmedOrNull(Get(args, "openrouter.providerSort")),
                    reasoningEffort |->
                        TrimmedOrNull(Get(args, "reasoningEffort"))])

\* ----------------------------------------------------------- config file
\* A config file: state is "missing" (ENOENT), "invalid" (the parser
\* throws or the root is not an object) or "object"; an object is given by
\* its leaves, each under its dotted path.  A leaf is a string, a boolean,
\* a number (s is its decimal form) or null.
JsonString(text) == [t |-> "string", b |-> FALSE, s |-> text]
JsonBoolean(b) == [t |-> "boolean", b |-> b, s |-> <<>>]
JsonNumber(digits) == [t |-> "number", b |-> FALSE, s |-> digits]
JsonNull == [t |-> "null", b |-> FALSE, s |-> <<>>]

CONFIG_KEY_ALIASES ==
  [promptsPath |-> "prompts", outPath |-> "out", apiBase |-> "api",
   storeSystem |-> "store-system", noProgress |-> "no-progress",
   openrouterProviderOrder |-> "openrouter.provider",
   openrouterProviderSort |-> "openrouter.providerSort"]

\* The keys of ConfigFiles have no surrounding blanks and no "--" prefix.
normalizeConfigKey(key) ==
  IF key \in DOMAIN CONFIG_KEY_ALIASES THEN CONFIG_KEY_ALIASES[key] ELSE key

toCliRawValue(value) ==
  IF value.t = "boolean" THEN BoolVal(value.b) ELSE StrVal(value.s)

\* flattenConfig drops null leaves; every other leaf is stored under its
\* normalized key.
loadConfigRawArgs(file) ==
  IF file.state # "object" THEN Threw("config")
  ELSE LET kept == {k \in DOMAIN file.leaves : file.leaves[k].t # "null"}
       IN Returned([k \in {normalizeConfigKey(x) : x \in kept} |->
                      toCliRawValue(file.leaves[
                        CHOOSE x \in kept : normalizeConfigKey(x) = k])])

\* Variant: { ...cliRaw, ...loadConfigRawArgs(configPath) }
MergeConfigLast(config, cliRaw) ==
  [k \in DOMAIN config \cup DOMAIN cliRaw |->
     IF k \in DOMAIN config THEN config[k] ELSE cliRaw[k]]

\* { ...loadConfigRawArgs(configPath), ...cliRaw }
Merge(config, cliRaw) ==
  [k \in DOMAIN config \cup DOMAIN cliRaw |->
     IF k \in DOMAIN cliRaw THEN cliRaw[k] ELSE config[k]]

\* The path of --config, if it is a string that is not blank.
ConfigPath(cliRaw) ==
  {v \in Get(cliRaw, "config") : v.t = "string" /\ Len(Trim(v.s)) > 0}

parseArgs(argv, file) ==
  LET cliRaw == parseRawArgs(argv)
      config == loadConfigRawArgs(file)
  IN IF \E v \in Get(cliRaw, "config") : v.t # "string"
       THEN Threw("usage")
     ELSE IF ConfigPath(cliRaw) = {} THEN parseArgsFromRaw(cliRaw)
     ELSE IF config.value = {} THEN Threw("config")
     ELSE parseArgsFromRaw(Merge(CHOOSE c \in config.value : TRUE, cliRaw))

\* ------------------------------------------------- calls of the functions
MaxNumLen == 3

\* The texts given to --concurrent.
NumberTexts ==
  StringsOver({"0", "2", "5", ".", "-", "a"}, MaxNumLen)
    \cup {InfinityText, <<"-">> \o InfinityText}

ModelArgs ==
  {<<>>, <<Flag("model")>>, <<FlagEq("model", <<>>)>>,
   <<Flag("model"), Word(<<>>)>>, <<Flag("model"), Word(<<"m">>)>>}

PromptsArgs ==
  {<<>>, <<Flag("prompts")>>, <<FlagEq("prompts", <<>>)>>,
   <<Flag("prompts"), Word(<<"p">>)>>}

ConcurrentArgs ==
  {<<>>, <<Flag("concurrent")>>, <<Flag("concurrent"), Word(<<"3">>)>>}
    \cup {<<FlagEq("concurrent", n)>> : n \in NumberTexts}

OptionArgs ==
  {<<>>,
   <<Flag("no-progress")>>,
   <<Flag("progress"), Word(<<"F", "a", "l", "s", "e">>)>>,
   <<Flag("store-system"), Word(<<"f", "a", "l", "s", "e">>)>>,
   <<Flag("out"), Word(<<"o">>)>>,
   <<FlagEq("out", <<>>)>>,
   <<Flag("system"), Word(<<"s">>)>>,
   <<Flag("openrouter.isFree"), Word(<<"t", "r", "u", "e">>)>>,
   <<Flag("openrouter.provider"), Word(<<"a", ",", " ", "b", ",">>)>>,
   <<Flag("openrouter.providerSort"), Word(<<" ", "p">>)>>,
   <<Flag("reasoningEffort")>>}

ConfigArgs ==
  {<<>>, <<Flag("config")>>, <<FlagEq("config", <<>>)>>,
   <<Flag("config"), Word(<<"c">>)>>}

ConfigFiles ==
  {[state |-> "missing", leaves |-> <<>>],
   [state |-> "invalid", leaves |-> <<>>],
   [state |-> "object", leaves |-> <<>>],
   [state |-> "object",
    leaves |-> [model |-> JsonString(<<"a">>),
                prompts |-> JsonString(<<"q">>),
                out |-> JsonString(<<"r">>)]],
   [state |-> "object",
    leaves |-> [model |-> JsonString(<<"a">>),
                promptsPath |-> JsonString(<<"q">>),
                concurrent |-> JsonNumber(<<"3">>),
                storeSystem |-> JsonBoolean(FALSE),
                noProgress |-> JsonBoolean(TRUE),
                system |-> JsonNull]
               @@ ("openrouter.isFree" :> JsonBoolean(TRUE))]}

ParseCall(argv, file) == [fn |-> "parseArgs", argv |-> argv, file |-> file]

\* argv with or without the required options and --config.
RequiredCalls ==
  {ParseCall(m \o q \o c, f) :
     m \in ModelArgs, q \in PromptsArgs, c \in ConfigArgs, f \in ConfigFiles}

\* argv with the required options and one more option.
OptionCalls ==
  {ParseCall(<<Flag("model"), Word(<<"m">>), FlagEq("prompts", <<"p">>)>>
               \o o \o c, f) :
     o \in ConcurrentArgs \cup OptionArgs,
     c \in {<<>>, <<Flag("config"), Word(<<"c">>)>>},
     f \in {g \in ConfigFiles : g.state = "object" /\ g.leaves # <<>>}}

ParseCalls == RequiredCalls \cup OptionCalls

ApplyParseArgs ==
  /\ fnIn.fn = "parseArgs"
  /\ fnOut = NoCall
  /\ fnOut' =
       LET r == parseArgs(fnIn.argv, fnIn.file)
       IN [fn |-> fnIn.fn, threw |-> r.threw, value |-> r.value,
           maxConcurrent |-> {maxConcurrentOf(a.concurrent) : a \in r.value}]
  /\ UNCHANGED <<pipeline, fnIn>>

InitFn ==
  /\ NotRunning
  /\ fnIn \in FormatCalls \cup MessageCalls \cup ParseCalls
  /\ fnOut = NoCall

NextFn ==
  \/ ApplyFormat
  \/ ApplyMessages
  \/ ApplyParseArgs

SpecFn == InitFn /\ [][NextFn]_vars

\* ---------------------------------------------------------------- claims
\* C1: the in-flight set never holds more than maxConcurrent tasks, every
\* unsettled task is in it, and schedule() is only called while it holds
\* fewer than maxConcurrent tasks.
C1_InFlightBounded ==
  /\ [](/\ Cardinality(inFlight) <= maxConcurrent
        /\ Unsettled \subseteq inFlight
        /\ Cardinality(Unsettled) <= maxConcurrent)
  /\ [][Len(tasks') > Len(tasks) =>
          Cardinality(inFlight) < maxConcurrent]_vars

\* The set is full (two tasks unsettled) while main waits for a slot.
C1_Witness ==
  /\ pc = "wait"
  /\ maxConcurrent = 2
  /\ Cardinality(Unsettled) = 2

\* C2: between suspension points and in every progress snapshot,
\* completed = ok + err, and completed is the number of scheduled tasks
\* that have settled.
C2_CompletedIsOkPlusErr ==
  /\ completed = okCount + errCount
  /\ completed =
       Cardinality({t \in TaskIds : tasks[t].st \in {"settled", "deleted"}})
  /\ \A s \in snapshot :
       s.completed = s.ok + s.err /\ s.completed = completed

\* A run in progress with a snapshot that counts a success and a failure.
C2_Witness ==
  /\ pc \in {"read", "wait", "drain"}
  /\ Unsettled # {}
  /\ \E s \in snapshot : s.ok >= 1 /\ s.err >= 1

\* C3: every scheduled task is recorded exactly once (one step adds 1 to
\* completed and to exactly one of ok and err, and never again for that
\* task), and when main finishes completed is the number of non-blank
\* lines.
C3_RecordedOnce ==
  /\ [][/\ Cardinality(Recorded' \ Recorded) <= 1
        /\ completed' - completed = Cardinality(Recorded' \ Recorded)
        /\ okCount' - okCount =
             Cardinality(RecordedAs("ok")' \ RecordedAs("ok"))
        /\ errCount' - errCount =
             Cardinality(RecordedAs("err")' \ RecordedAs("err"))
        /\ \A t \in Recorded : tasks'[t].outcome = tasks[t].outcome]_vars
  /\ [](pc = "done" =>
          /\ Len(tasks) = NumPrompts
          /\ Recorded = TaskIds
          /\ completed = NumPrompts)

\* main finished a file of two prompts and a blank line, one task recorded
\* as ok and one as err.
C3_Witness ==
  /\ pc = "done"
  /\ NumPrompts = 2
  /\ Len(lines) > 2
  /\ completed = 2
  /\ RecordedAs("ok") # {}
  /\ RecordedAs("err") # {}

\* C4 as claimed: when main has finished and no remote call threw, the
\* output holds one row per prompt and completed = ok = N, err = 0.
C4_AllCallsSucceed ==
  (pc = "done" /\ \A t \in TaskIds : tasks[t].call = "returned") =>
    /\ Len(rows) = NumPrompts
    /\ completed = NumPrompts
    /\ okCount = NumPrompts
    /\ errCount = 0

\* C5: a remote call that throws adds 1 to err within its task and changes
\* nothing of main, of the in-flight set, of the output or of any other
\* task; when main finishes every prompt was scheduled and recorded, and
\* every task whose call returned had its row handed to the sink.
C5_FailureIsolated ==
  /\ [][\A t \in TaskIds :
          (tasks[t].call = "pending" /\ tasks'[t].call = "threw") =>
            /\ errCount' = errCount + 1
            /\ okCount' = okCount
            /\ pc' = pc
            /\ inFlight' = inFlight
            /\ writeChain' = writeChain
            /\ rows' = rows
            /\ Len(tasks') = Len(tasks)
            /\ \A u \in TaskIds \ {t} : tasks'[u] = tasks[u]]_vars
  /\ [](pc = "done" =>
          /\ Len(tasks) = NumPrompts
          /\ \A t \in TaskIds :
               /\ tasks[t].outcome # "none"
               /\ tasks[t].call = "returned" => t \in Range(AppendCalls))

\* One prompt of three failed: two rows, ok = 2, err = 1, main finished.
C5_Witness ==
  /\ pc = "done"
  /\ NumPrompts = 3
  /\ Cardinality({t \in TaskIds : tasks[t].call = "threw"}) = 1
  /\ Len(rows) = 2
  /\ okCount = 2
  /\ errCount = 1

\* C6: no row is written for a task counted as err, a task whose call threw
\* never calls writeJsonlLine, and when main finishes the number of rows is
\* ok.
C6_NoRowForErr ==
  /\ \A t \in RecordedAs("err") : t \notin Range(rows)
  /\ \A t \in TaskIds :
       tasks[t].call = "threw" => t \notin Range(AppendCalls)
  /\ pc = "done" => Len(rows) = okCount

\* main finished with a failed call and a written row.
C6_Witness ==
  /\ pc = "done"
  /\ \E t \in TaskIds : tasks[t].call = "threw"
  /\ Len(rows) >= 1
  /\ errCount >= 1

\* C7: at most one out.write is outstanding, and a write is issued only
\* after every earlier write of the chain was acknowledged.
C7_WritesSerialized ==
  /\ Cardinality({i \in 1..Len(writeChain) :
                    writeChain[i].st = "issued"}) <= 1
  /\ \A i \in 1..Len(writeChain) :
       writeChain[i].st \in {"issued", "fulfilled"} =>
         \A j \in 1..(i - 1) : writeChain[j].st = "fulfilled"

\* Two tasks called writeJsonlLine; the second waits for the first write.
C7_Witness ==
  \E i \in 1..Len(writeChain) :
    /\ i < Len(writeChain)
    /\ writeChain[i].st = "issued"
    /\ writeChain[i + 1].st = "pending"

\* C8: the rows written so far are a prefix of the sequence of
\* writeJsonlLine calls, which is the order in which the calls returned.
C8_RowsInCallOrder == IsPrefix(rows, AppendCalls)

\* The row of a later prompt was written before the row of an earlier one.
C8_Witness ==
  /\ Len(rows) >= 2
  /\ rows[1] > rows[2]

\* C9 as claimed: a rejected write is not absorbed as the err of a task,
\* and main does not finish normally after it.
C9_WriteFailureFatal ==
  /\ \A t \in RecordedAs("err") : tasks[t].call = "threw"
  /\ (\E i \in 1..Len(writeChain) : writeChain[i].st = "rejected") =>
       pc # "done"

\* C10 as claimed: with pricing fully known, the spend at the end of main
\* is the sum of the costs of the tasks counted in ok.
C10_SpendOfOkTasks ==
  (pc = "done" /\ canTrackSpend) =>
    spentUsd = SumOver(RecordedAs("ok"), [t \in TaskIds |-> tasks[t].cost])

\* C11: unless pricing was found and the prompt, completion and request
\* rates are all three known, no task is charged a cost, spend stays 0 and
\* no progress snapshot (the final one included) carries a spend value.
C11_SpendAllOrNothing ==
  ~(/\ pricing # {}
    /\ \A p \in pricing :
         p.known.prompt /\ p.known.completion /\ p.known.request) =>
    /\ spentUsd = 0
    /\ \A t \in TaskIds : tasks[t].cost = 0
    /\ \A s \in snapshot : s.spentUsd = {}

\* main finished a run with a progress bar whose pricing lists the token
\* rates but not the request rate; a call returned and its row was counted.
C11_Witness ==
  /\ pc = "done"
  /\ \E p \in pricing :
       p.known.prompt /\ p.known.completion /\ ~p.known.request
  /\ okCount >= 1
  /\ snapshot # {}

\* C12: out.end() is called only after the prompts file was read to its
\* end and the in-flight set is empty; then every scheduled task has
\* settled and left the set, every write that was issued has been
\* acknowledged, and nothing is handed to the sink or written afterwards.
C12_CloseAfterDrain ==
  /\ [](outEnded =>
          /\ lineNum = Len(lines)
          /\ inFlight = {}
          /\ Len(tasks) = NumPrompts
          /\ \A t \in TaskIds : tasks[t].st = "deleted"
          /\ \A i \in 1..Len(writeChain) :
               writeChain[i].st \in {"fulfilled", "rejected"})
  /\ [][outEnded => (writeChain' = writeChain /\ rows' = rows)]_vars
  /\ [][(~outEnded /\ outEnded') => (inFlight = {} /\ pc' = "done")]_vars

\* main closed the output of a run with maxConcurrent = 2 after two rows
\* were written.
C12_Witness ==
  /\ outEnded
  /\ maxConcurrent = 2
  /\ Len(tasks) >= 2
  /\ Len(rows) >= 2

NonBlankText(s) == \E i \in 1..Len(s) : ~IsWhiteSpace(s[i])

Roles(messages) == [i \in 1..Len(messages) |-> messages[i].role]

\* C13: buildOutputMessages returns [system, user, assistant] exactly when
\* the system prompt is not blank and storeSystem is true, and [user,
\* assistant] in every other case, also when the request held a system
\* message; the contents are the arguments, unchanged.
C13_SystemStoredIff ==
  fnOut.fn = "buildOutputMessages" =>
    LET stored == NonBlankText(fnIn.systemPrompt) /\ fnIn.storeSystem
        out == fnOut.value
    IN /\ Roles(out) = <<"system", "user", "assistant">> <=> stored
       /\ ~stored => Roles(out) = <<"user", "assistant">>
       /\ stored => out[1].content = fnIn.systemPrompt
       /\ out[Len(out) - 1].content = fnIn.userPrompt
       /\ out[Len(out)].content =
            formatAssistantContent(fnIn.content, fnIn.reasoning)
       /\ (Roles(fnOut.request) = <<"system", "user">> /\ ~fnIn.storeSystem)
            => Roles(out) = <<"user", "assistant">>

\* The request held the system prompt " a" and the stored messages do not.
C13_Witness ==
  /\ fnOut.fn = "buildOutputMessages"
  /\ fnIn.systemPrompt = <<" ", "a">>
  /\ ~fnIn.storeSystem
  /\ Roles(fnOut.request) = <<"system", "user">>
  /\ Roles(fnOut.value) = <<"user", "assistant">>

\* C14: formatAssistantContent returns "<think>" reasoning "</think>\n"
\* content when reasoning is a string that is not blank, and content
\* unchanged when reasoning is undefined or a blank string.
C14_ThinkBlock ==
  fnOut.fn = "formatAssistantContent" =>
    LET r == fnIn.reasoning
    IN /\ (r.type = "string" /\ NonBlankText(r.text)) =>
            fnOut.value =
              <<"<think>">> \o r.text \o <<"</think>", "\n">> \o fnIn.content
       /\ (r.type = "undefined" \/ (r.type = "string" /\ ~NonBlankText(r.text)))
            => fnOut.value = fnIn.content

\* A blank reasoning string left the content "a " unchanged.
C14_Witness ==
  /\ fnOut.fn = "formatAssistantContent"
  /\ fnIn.reasoning = [type |-> "string", text |-> <<" ", " ">>]
  /\ fnIn.content = <<"a", " ">>
  /\ fnOut.value = <<"a", " ">>

\* The raw options of the command line and of the config file of a call.
CliRaw == parseRawArgs(fnIn.argv)
ConfigRaw == loadConfigRawArgs(fnIn.file).value

\* The call read a config file and the file held an object.
ConfigLoaded == ConfigPath(CliRaw) # {} /\ ConfigRaw # {}

\* The value of key k by precedence: the command line's if the key is on
\* the command line, the config file's otherwise.
Chosen(k) ==
  IF k \in DOMAIN CliRaw THEN {CliRaw[k]}
  ELSE IF ConfigLoaded THEN Get(CHOOSE c \in ConfigRaw : TRUE, k)
  ELSE {}

\* The call got as far as parseArgsFromRaw.
OptionsMerged ==
  /\ fnOut.fn = "parseArgs"
  /\ \A v \in Get(CliRaw, "config") : v.t = "string"
  /\ ConfigPath(CliRaw) # {} => ConfigLoaded

HasText(opt) == \E v \in opt : v.t = "string" /\ Len(v.s) > 0

\* C15 as claimed: parseArgs throws the usage error when the merged
\* options hold no non-empty model or no non-empty prompts path, and
\* returns an Args value (model and promptsPath non-empty strings)
\* otherwise.
C15_UsageIffRequiredMissing ==
  OptionsMerged =>
    IF HasText(Chosen("model")) /\ HasText(Chosen("prompts"))
      THEN /\ fnOut.threw = "none"
           /\ \A a \in fnOut.value :
                HasText({a.model}) /\ HasText({a.promptsPath})
      ELSE fnOut.threw = "usage"

\* The Args fields that hold (args.key as string) || fallback.
TextFields ==
  [model |-> "model", promptsPath |-> "prompts", outPath |-> "out",
   apiBase |-> "api", systemPrompt |-> "system"]

\* C16: when a config file was read, every option resolves from the value
\* of its key on the command line if the key is there, and from the config
\* file's value otherwise.
C16_CommandLineOverridesConfig ==
  (fnOut.fn = "parseArgs" /\ ConfigLoaded) =>
    /\ fnOut.threw = "usage" <=>
         (~Truthy(Chosen("model")) \/ ~Truthy(Chosen("prompts")))
    /\ \A a \in fnOut.value :
         /\ \A f \in DOMAIN TextFields :
              \A v \in Chosen(TextFields[f]) : HasText({v}) => a[f] = v
         /\ a.concurrent = concurrentOf(Chosen("concurrent"))
         /\ a.storeSystem = NotFalse(Chosen("store-system"))
         /\ a.progress =
              (NotFalse(Chosen("progress")) /\ Chosen("no-progress") = {})

\* --model m on the command line won over the config file's model a, and
\* the config file gave the prompts path and the output path.
C16_Witness ==
  /\ fnOut.fn = "parseArgs"
  /\ ConfigLoaded
  /\ Get(CliRaw, "model") = {StrVal(<<"m">>)}
  /\ Get(CHOOSE c \in ConfigRaw : TRUE, "model") = {StrVal(<<"a">>)}
  /\ Get(CliRaw, "prompts") = {}
  /\ \E a \in fnOut.value :
       /\ a.model = StrVal(<<"m">>)
       /\ a.promptsPath = StrVal(<<"q">>)
       /\ a.outPath = StrVal(<<"r">>)

\* The raw value is a decimal text that denotes a positive integer.
IsPositiveInteger(v) ==
  /\ v.t = "string"
  /\ IsDecimalText(v.s)
  /\ NumberOf(v).m > 0
  /\ \A i \in 1..Len(v.s) :
       (\E j \in 1..(i - 1) : v.s[j] = ".") => v.s[i] = "0"

\* C17 as claimed: concurrent is 1 when --concurrent is absent, n when it
\* is a positive integer n, and 1 for every other raw value; maxConcurrent
\* is at least 1.
C17_ConcurrentOneOrN ==
  (fnOut.fn = "parseArgs" /\ fnOut.threw = "none") =>
    \A a \in fnOut.value :
      /\ Chosen("concurrent") = {} => a.concurrent = 1
      /\ \A v \in Chosen("concurrent") :
           IF IsPositiveInteger(v)
             THEN a.concurrent * Pow10(NumberOf(v).d) = NumberOf(v).m
             ELSE a.concurrent = 1
      /\ fnOut.maxConcurrent = {a.concurrent}
      /\ a.concurrent >= 1

\* C17, amended: a raw value that is a finite number x >= 1 gives
\* concurrent = the largest integer n <= x (n itself when the value is the
\* positive integer n); an absent key and every other raw value (0,
\* negative, not a number, infinite, below 1, a boolean) give 1;
\* maxConcurrent = concurrent >= 1, so a wait on an empty in-flight set
\* never blocks.
C17_ConcurrentFloored ==
  (fnOut.fn = "parseArgs" /\ fnOut.threw = "none") =>
    \A a \in fnOut.value :
      /\ Chosen("concurrent") = {} => a.concurrent = 1
      /\ \A v \in Chosen("concurrent") :
           LET x == NumberOf(v)
           IN IF v.t = "string" /\ x.k = "fin" /\ x.m >= Pow10(x.d)
                THEN /\ a.concurrent * Pow10(x.d) <= x.m
                     /\ x.m < (a.concurrent + 1) * Pow10(x.d)
                ELSE a.concurrent = 1
      /\ fnOut.maxConcurrent = {a.concurrent}
      /\ a.concurrent >= 1
      /\ ~(Cardinality({}) >= a.concurrent)

\* --concurrent=2.5 gave concurrent = 2.
C17_Witness ==
  /\ fnOut.fn = "parseArgs"
  /\ Get(CliRaw, "concurrent") = {StrVal(<<"2", ".", "5">>)}
  /\ \E a \in fnOut.value : a.concurrent = 2

\* C18 as claimed: with openrouter.isFree true on the command line or in
\* the config file, the Args that parseArgs returns have openrouterIsFree
\* = true.
C18_IsFreeParsed ==
  (/\ fnOut.fn = "parseArgs"
   /\ \E v \in Chosen("openrouter.isFree") :
        v = BoolVal(TRUE) \/ v = StrVal(<<"t", "r", "u", "e">>)) =>
    \A a \in fnOut.value :
      /\ "openrouterIsFree" \in DOMAIN a
      /\ a["openrouterIsFree"] = TRUE

\* main found a required argument, API_KEY or the prompts file missing, or
\* the prompts path not to be a regular file.
PreflightFails ==
  ~env.argsOk \/ ~env.apiKey \/ env.file \in {"missing", "notfile"}

C21_ProgressSequence ==
  /\ [](bar =>
        /\ Len(seen) = completed + 1 + (IF pc = "done" THEN 1 ELSE 0)
        /\ \A i \in 1..(completed + 1) : seen[i] = i - 1
        /\ pc = "done" =>
             seen[Len(seen)] = completed /\ completed = NumPrompts
        /\ \E s \in snapshot :
             /\ snapshot = {s}
             /\ s.completed = completed
             /\ s.ok = okCount
             /\ s.err = errCount)
  /\ [](~bar => seen = <<>> /\ snapshot = {})
  /\ [][\A s \in snapshot : \A s2 \in snapshot' :
          s2.ok >= s.ok /\ s2.err >= s.err]_vars

C21_Witness ==
  /\ bar
  /\ pc = "done"
  /\ seen = <<0, 1, 2, 2>>
  /\ errCount = 1

\* main is in the pipeline or past it.
InPipeline == pc \in {"read", "wait", "admit", "drain", "done", "failed"}

\* The WARN lines of a pricing lookup that threw or found nothing.
LookupWarnings ==
  {Warn("Failed to fetch OpenRouter models/pricing"),
   Warn("Could not find pricing for model")}

\* The entries of the write chain whose write was acknowledged.
Acknowledged == SelectSeq(writeChain, LAMBDA e : e.st = "fulfilled")

\* C22: a pricing lookup that throws or finds no pricing does not end main:
\* the step after the checks always enters the pipeline, with one WARN line
\* and without cost tracking.  The rows and the counters are, whatever the
\* lookup gave, the same function of the outcomes of the calls and of the
\* writes, and at the end every prompt was processed.
C22_LookupFailureNotFatal ==
  /\ [][pc = "setup" => pc' = "read" /\ exitCode' = {}]_vars
  /\ [](InPipeline /\ env.openRouter /\ env.lookup # "found" =>
        /\ exitCode = {}
        /\ Cardinality(warned \cap LookupWarnings) = 1
        /\ ~canTrackSpend
        /\ spentUsd = 0
        /\ \A s \in snapshot : s.spentUsd = {})
  /\ [](InPipeline =>
        /\ rows = [i \in 1..Len(Acknowledged) |-> Acknowledged[i].task]
        /\ okCount = Cardinality(RecordedAs("ok"))
        /\ errCount = Cardinality(RecordedAs("err"))
        /\ \A t \in RecordedAs("ok") :
             tasks[t].call = "returned"
               /\ writeChain[EntryOf(t)].st = "fulfilled"
        /\ \A t \in RecordedAs("err") :
             \/ tasks[t].call = "threw"
             \/ writeChain[EntryOf(t)].st = "rejected"
        /\ pc = "done" => Recorded = 1..NumPrompts)

C22_Witness ==
  /\ env.openRouter
  /\ env.lookup = "threw"
  /\ pc = "done"
  /\ Len(rows) = 1
  /\ okCount = 1
  /\ errCount = 1

\* The WARN lines written so far.
WarnLines == {w \in warned : w.line = {}}

\* C23: on an OpenRouter API base, when cost tracking is disabled at least
\* one WARN line was written before the first prompt is dispatched.
C23_WarnedWhenUntracked ==
  InPipeline /\ env.openRouter /\ ~canTrackSpend /\ tasks # <<>> =>
    WarnLines # {}

\* C24: callOpenRouter returns a result only on a response whose status is
\* a success and whose content is a string that is not empty; on every
\* other response it throws, and the step in which it throws makes the task
\* a failure: err + 1, ok unchanged, one new ERR line naming the task's
\* line, and no row, then or later.
C24_BadResponseIsFailure ==
  /\ [](\A t \in TaskIds :
          /\ tasks[t].call = "returned" =>
               /\ tasks[t].answered # {}
               /\ \A a \in tasks[t].answered :
                    /\ a.status = "ok"
                    /\ a.content.type = "string"
                    /\ Len(a.content.text) > 0
          /\ tasks[t].call = "threw" =>
               /\ tasks[t].outcome = "err"
               /\ ErrLine(tasks[t].line) \in warned
               /\ t \notin Range(rows)
               /\ t \notin Range(AppendCalls))
  /\ [][\A t \in TaskIds :
          tasks[t].call = "pending" /\ tasks'[t].call = "threw" =>
            /\ errCount' = errCount + 1
            /\ okCount' = okCount
            /\ ErrLine(tasks[t].line) \notin warned
            /\ warned' = warned \cup {ErrLine(tasks[t].line)}
            /\ rows' = rows
            /\ writeChain' = writeChain]_vars

C24_Witness ==
  \E t, u \in TaskIds :
    /\ tasks[t].call = "threw"
    /\ tasks[t].outcome = "err"
    /\ ErrLine(tasks[t].line) \in warned
    /\ tasks[u].call = "returned"
    /\ u \in Range(rows)
    /\ errCount = 1

\* C25: the step that opens the output stream empties the output file, so
\* that in the pipeline and after it the file holds only rows of tasks of
\* this run; it is empty at the end of a run without a non-blank line and
\* of a run in which every task failed.
C25_OutputTruncated ==
  /\ [][pc = "setup" => rows # <<>> /\ rows' = <<>>]_vars
  /\ [](InPipeline => Range(rows) \subseteq RecordedAs("ok") \cup Unsettled)
  /\ [](pc = "done" /\ okCount = 0 => rows = <<>>)

C25_Witness ==
  /\ pc = "done"
  /\ rows = <<>>
  /\ NumPrompts = 2
  /\ errCount = 2

\* C26: a read error of the prompts file ends main with the error: the
\* step changes no counter, no task and no warning, main does not call
\* process.exit, and afterwards main takes no step: no line is read, no
\* prompt is admitted and the output is not ended.  err counts tasks only.
C26_ReadErrorAborts ==
  /\ [][pc # "failed" /\ pc' = "failed" =>
         /\ pc = "read"
         /\ lineNum < Len(lines)
         /\ UNCHANGED <<tasks, completed, okCount, errCount, warned, rows,
                        exitCode>>]_vars
  /\ [][pc = "failed" =>
         /\ pc' = "failed"
         /\ Len(tasks') = Len(tasks)
         /\ UNCHANGED <<lineNum, promptIndex, outEnded, exitCode>>]_vars
  /\ [](errCount = Cardinality(RecordedAs("err")))

C26_Witness ==
  /\ pc = "failed"
  /\ Len(tasks) = 1
  /\ NumPrompts = 2
  /\ lineNum < Len(lines)
  /\ completed = 1

\* The raw lines read so far that hold a prompt.
PromptsRead == {i \in NonBlank(lines) : i <= lineNum}

\* text is raw without the white space at its two ends.
IsTrimOf(text, raw) ==
  /\ text # <<>>
  /\ ~IsWhiteSpace(text[1])
  /\ ~IsWhiteSpace(text[Len(text)])
  /\ \E a \in 0..Len(raw) :
       /\ a + Len(text) <= Len(raw)
       /\ SubSeq(raw, a + 1, a + Len(text)) = text
       /\ \A i \in (1..a) \cup ((a + Len(text) + 1)..Len(raw)) :
            IsWhiteSpace(raw[i])

\* C27: lineNum counts every raw line read and promptIndex the prompts
\* admitted; a step that reads a line adds 1 to lineNum, and only the
\* admission of the prompt of the current line adds 1 to promptIndex and
\* creates a task.  Task t is the t-th line that is not blank, its prompt is
\* that line trimmed, and the ERR lines are exactly those of the raw line
\* numbers, counted from 1, of the failed tasks.
C27_LineNumbers ==
  /\ [][lineNum' # lineNum =>
         lineNum' = lineNum + 1 /\ UNCHANGED <<promptIndex, tasks>>]_vars
  /\ [][promptIndex' # promptIndex \/ Len(tasks') # Len(tasks) =>
         /\ promptIndex' = promptIndex + 1
         /\ Len(tasks') = Len(tasks) + 1
         /\ lineNum' = lineNum
         /\ lineNum \in NonBlank(lines)
         /\ tasks'[Len(tasks')].line = lineNum]_vars
  /\ [](/\ promptIndex = Len(tasks)
        /\ lineNum \in 0..Len(lines)
        /\ promptIndex = Cardinality(PromptsRead)
                           - (IF pc \in {"wait", "admit"} THEN 1 ELSE 0))
  /\ [](\A t \in TaskIds :
          /\ tasks[t].line \in NonBlank(lines)
          /\ Cardinality({i \in NonBlank(lines) : i <= tasks[t].line}) = t
          /\ IsTrimOf(tasks[t].prompt, lines[tasks[t].line]))
  /\ []({w \in warned : w.line # {}}
          = {ErrLine(tasks[t].line) : t \in RecordedAs("err")})

C27_Witness ==
  /\ Len(tasks) = 2
  /\ lines[1] = <<>>
  /\ lines[2] = <<" ", "a">>
  /\ tasks[1].prompt = <<"a">>
  /\ tasks[2].line = 3
  /\ tasks[2].outcome = "err"
  /\ ErrLine(3) \in warned
  /\ ErrLine(2) \notin warned

\* C28: when every remote call returns or throws and every write is
\* acknowledged, main reaches its end; at the end every non-blank line was
\* admitted and recorded and nothing is in flight; and main never awaits
\* Promise.race of an empty set.
C28_Terminates ==
  /\ <>(pc = "done")
  /\ [](pc = "done" =>
        /\ Len(tasks) = NumPrompts
        /\ completed = NumPrompts
        /\ inFlight = {}
        /\ outEnded)
  /\ [](pc \in {"wait", "drain"} => raceOn # {} /\ raceOn \subseteq TaskIds)

C28_Witness ==
  /\ pc = "done"
  /\ maxConcurrent = 1
  /\ NumPrompts = 3
  /\ completed = 3
  /\ okCount = 2

\* The entries of the write chain that are rejected.
RejectedEntries == {i \in 1..Len(writeChain) : writeChain[i].st = "rejected"}

\* C29: once a write failed, the chain stays rejected: a rejected entry
\* stays rejected, no later entry is handed to the output stream, no row is
\* added any more, and every task that called writeJsonlLine after the
\* failure is recorded as err, with its ERR line and without a row,
\* although its call returned a completion.
C29_ChainStaysRejected ==
  /\ [][\A i \in RejectedEntries : writeChain'[i].st = "rejected"]_vars
  /\ [](\A i \in RejectedEntries : \A j \in 1..Len(writeChain) :
          /\ j < i => writeChain[j].st \in {"fulfilled", "rejected"}
          /\ j > i => writeChain[j].st \in {"pending", "rejected"})
  /\ [][RejectedEntries # {} => rows' = rows]_vars
  /\ [](\A t \in Recorded :
          tasks[t].call = "returned"
            /\ (\E i \in RejectedEntries : i <= EntryOf(t)) =>
              /\ tasks[t].outcome = "err"
              /\ tasks[t].answered # {}
              /\ ErrLine(tasks[t].line) \in warned
              /\ t \notin Range(rows))

C29_Witness ==
  /\ Len(writeChain) = 3
  /\ writeChain[1].st = "fulfilled"
  /\ RejectedEntries = {2, 3}
  /\ tasks[writeChain[3].task].outcome = "err"
  /\ ErrLine(tasks[writeChain[3].task].line) \in warned
  /\ Len(rows) = 1
  /\ pc = "done"

\* C30: with maxConcurrent = 1 at most one task is in flight and at most
\* one call is outstanding; a prompt is dispatched only when every earlier
\* task is recorded, as ok with its row in the file or as err; and the rows
\* are in the order of the prompts, at the end those of the ok tasks.
C30_SequentialWhenOne ==
  /\ [](maxConcurrent = 1 =>
        /\ Cardinality(inFlight) <= 1
        /\ Cardinality(Unsettled) <= 1
        /\ \A i, j \in 1..Len(rows) : i < j => rows[i] < rows[j]
        /\ pc = "done" => Range(rows) = RecordedAs("ok"))
  /\ [][maxConcurrent = 1 /\ Len(tasks') > Len(tasks) =>
         \A t \in TaskIds :
           \/ tasks[t].outcome = "ok" /\ t \in Range(rows)
           \/ tasks[t].outcome = "err" /\ t \notin Range(rows)]_vars

C30_Witness ==
  /\ maxConcurrent = 1
  /\ pc = "done"
  /\ rows = <<1, 3>>
  /\ tasks[2].outcome = "err"
====
